---------------------------- MODULE Spec2Model ----------------------------
(***************************************************************************)
(* Scheduler dashboard: the request gateway (Next.js catch-all proxy       *)
(* route src/app/api/proxy/[...path]/route.ts) between the dashboard       *)
(* client and the upstream scheduler service.                              *)
(*                                                                         *)
(* One inbound request is followed from the route handler (GET, POST, PUT, *)
(* DELETE, OPTIONS) through validateApiKey, createHeaders and the awaited  *)
(* fetch, to the response the handler returns.  The gateway keeps no state *)
(* between requests, so one request at a time covers every behaviour.      *)
(*                                                                         *)
(* Beside the gateway the module follows the client: the unwrapping of     *)
(* response bodies in src/lib/api.ts (NormSpec), the Home page's start,    *)
(* stop and restart controls with their optimistic state (ControlSpec),    *)
(* the job pages' mutations (JobsSpec) and the login page's remember-me    *)
(* item (LoginSpec).  Each specification moves one component and leaves    *)
(* the others at rest.                                                     *)
(***************************************************************************)
EXTENDS Integers, Sequences, FiniteSets, TLC

VARIABLES
    apiKeyEnv,        \* process.env.API_KEY of the gateway process
    pc,               \* "idle" | "fetching" (suspended at await fetch) | "responded"
    request,          \* the inbound request being handled
    validationError,  \* proxyRequest's local: what validateApiKey returned
    fetchCalls,       \* the upstream calls made for this request, in order
    upstream,         \* what the upstream (or the transport) did with the call
    response          \* the response the handler returned

\* The client's response unwrapping (src/lib/api.ts), applied to one body.
VARIABLES
    normPc,           \* "off" | "input" | "once" | "twice"
    normFn,           \* the api.ts function whose unwrapping is applied
    normInput,        \* the response body, with the payload and depth it was built from
    normResult,       \* what the function returned (or that it threw)
    normAgain         \* what the same unwrapping returns for that result

\* The Home page (src/app/page.tsx): scheduler control and its queries.
VARIABLES
    isClient,                  \* useState(false), set by the mount effect
    optimisticSchedulerState,  \* useState<boolean | null>(null)
    operationInProgress,       \* useState<string | null>(null)
    queryData,                 \* react-query cache: query key -> data
    fetching,                  \* the query keys with a fetch in flight
    fresh,                     \* the query keys whose data is younger than staleTime
    mutationStatus,            \* start/stop/restart -> "idle" | "pending" | "success" | "error"
    timers,                    \* setTimeout callbacks not yet run
    lifecycleCalls,            \* the start/stop/restart requests sent, in order
    lastToast,                 \* the toast shown last
    lastEvent                  \* the handler that ran last

\* The job pages (JobsPage, JobDetailPage, EditJobPage, NewJobPage).  They read
\* the scheduler status from the same react-query cache as the Home page.
VARIABLES
    deleteConfirm,    \* deleteConfirm.isOpen: the delete dialog is open
    jobPending,       \* the job mutations with a request in flight
    jobCalls          \* the job-mutating requests sent, in order

\* The login page (src/app/login/page.tsx).
VARIABLES
    rememberedUsername,  \* localStorage 'remembered_username' (Null when absent)
    loginMounted,        \* the login page is on screen
    loginForm,           \* the form's username and rememberMe values
    isLoading,           \* useState(false): a login call is in flight
    loginData,           \* the data onSubmit was called with, while in flight
    loginOutcome,        \* "none" | "success" (loginSuccess) | the kind of loginError
    loginHistory         \* the remember-me changes and finished logins, in order

\* Polling on the job pages: their queries set refetchInterval.
VARIABLES
    pollPage,    \* the job page on screen: "none" | "jobs" | "detail"
    pollCalls,   \* query key -> the fetches of the query not yet resolved
    pollEvent    \* what happened last to the polling

gatewayVars == <<apiKeyEnv, pc, request, validationError, fetchCalls, upstream, response>>
normVars == <<normPc, normFn, normInput, normResult, normAgain>>

controlVars ==
    <<isClient, optimisticSchedulerState, operationInProgress, queryData, fetching,
      fresh, mutationStatus, timers, lifecycleCalls, lastToast, lastEvent>>

jobVars == <<deleteConfirm, jobPending, jobCalls>>

loginVars ==
    <<rememberedUsername, loginMounted, loginForm, isLoading, loginData, loginOutcome,
      loginHistory>>

pollVars == <<pollPage, pollCalls, pollEvent>>

vars == <<gatewayVars, normVars, controlVars, jobVars, loginVars, pollVars>>

-----------------------------------------------------------------------------
(* JavaScript values *)

Null == "<null>"              \* headers.get() of a header that is not there
Undefined == "<undefined>"    \* an unset environment variable, an omitted argument

\* JavaScript truthiness of a string-or-null-or-undefined value.
Truthy(v) == v # Null /\ v # Undefined /\ v # ""

\* String.prototype.includes
Includes(s, sub) ==
    \E i \in 1..(Len(s) - Len(sub) + 1) : SubSeq(s, i, i + Len(sub) - 1) = sub

\* Array.prototype.join
RECURSIVE Join(_, _)
Join(segs, sep) ==
    IF segs = <<>> THEN ""
    ELSE IF Len(segs) = 1 THEN segs[1]
    ELSE segs[1] \o sep \o Join(Tail(segs), sep)

(* Header collections: a function from the names that are present to their  *)
(* values.                                                                  *)
NoHeaders == [n \in {} |-> ""]
HeaderGet(h, name) == IF name \in DOMAIN h THEN h[name] ELSE Null
HeaderSet(h, name, value) == [n \in DOMAIN h \cup {name} |-> IF n = name THEN value ELSE h[n]]

-----------------------------------------------------------------------------
(* JSON texts and values.                                                   *)
(* A JSON value is a record; a JSON string value is tagged so that a field  *)
(* holding either a string or an object can be inspected.  A text (a body   *)
(* on the wire) is well formed or not; a well-formed text carries its value *)
(* and whether it is written with insignificant whitespace.                 *)

JsonString(s) == [string |-> s]

JsonText(doc, spaced) == [wellFormed |-> TRUE, spaced |-> spaced, doc |-> doc]
RawText(raw) == [wellFormed |-> FALSE, spaced |-> FALSE, doc |-> [raw |-> raw]]
EmptyBody == RawText("")

\* JSON.stringify: the compact serialisation of a value.
JsonStringify(doc) == JsonText(doc, FALSE)

\* new Date().toISOString(); the instant itself plays no part in any decision.
IsoTimestamp == JsonString("<ISO-8601 now>")

(* Decoded JSON values as JavaScript sees them.  A scalar or an array is a   *)
(* record with the one field that names its type; anything else is an       *)
(* object, a record of its properties.                                      *)
JsUndefined == [undefined |-> TRUE]
JsNull == [null |-> TRUE]
JsNumber(n) == [number |-> n]
JsBoolean(b) == [boolean |-> b]
JsArray(elements) == [array |-> elements]

JsTypeTags == {"undefined", "null", "number", "boolean", "string", "array"}
IsJsObject(v) == DOMAIN v \cap JsTypeTags = {}
IsNullish(v) == v = JsUndefined \/ v = JsNull

\* ToBoolean: undefined, null, 0, false and '' are falsy, all else is truthy.
JsTruthy(v) ==
    v \notin {JsUndefined, JsNull, JsNumber(0), JsBoolean(FALSE), JsonString("")}

\* v.name for a v that is not null or undefined.
PropertyGet(v, name) ==
    IF IsJsObject(v) /\ name \in DOMAIN v THEN v[name] ELSE JsUndefined

\* v?.name
OptionalGet(v, name) == IF IsNullish(v) THEN JsUndefined ELSE PropertyGet(v, name)

\* What an expression evaluates to: a value, or a thrown TypeError.
Returned(v) == [threw |-> FALSE, value |-> v]
ThrewTypeError == [threw |-> TRUE, value |-> JsUndefined]

-----------------------------------------------------------------------------
(* The route module: constants *)

SCHEDULER_API_BASE == "http://localhost:3002/api/v1"

HealthPath == "system/health"        \* the path validateApiKey exempts
AcceptedApiKey == "client-request"   \* the one inbound X-API-Key value accepted

StatusOk == 200
StatusUnauthorized == 401
StatusProxyError == 500
StatusBackendUnavailable == 503

\* The three Access-Control-* headers the route attaches.
CorsHeaders ==
    ("Access-Control-Allow-Origin" :> "*")
    @@ ("Access-Control-Allow-Methods" :> "GET, POST, PUT, DELETE, OPTIONS")
    @@ ("Access-Control-Allow-Headers" :> "Content-Type, Authorization, X-API-Key")

\* NextResponse.json(body, {status, headers}): the body is serialised.
NextResponseJson(doc, status, headers) ==
    [status |-> status, headers |-> headers, body |-> JsonStringify(doc)]

NoResponse == [status |-> 0, headers |-> NoHeaders, body |-> EmptyBody]

\* The two rejection bodies of validateApiKey.
MissingKeyBody ==
    [success |-> FALSE, error |-> JsonString("Missing X-API-Key header")]
InvalidKeyBody ==
    [success |-> FALSE,
     error |-> [code |-> "UNAUTHORIZED", message |-> "Invalid API key"],
     timestamp |-> IsoTimestamp]

\* The two error bodies of proxyRequest's catch block.
BackendUnavailableBody ==
    [success |-> FALSE,
     error |-> [code |-> "BACKEND_UNAVAILABLE",
                message |-> "Backend service is not available. Please ensure the scheduler service is running on port 3002."],
     timestamp |-> IsoTimestamp]
ProxyErrorBody ==
    [success |-> FALSE,
     error |-> [code |-> "PROXY_ERROR", message |-> "Proxy request failed"],
     timestamp |-> IsoTimestamp]

-----------------------------------------------------------------------------
(* The route module: functions *)

\* validateApiKey checking only that a key is there, never its value.
validateApiKey_PresenceOnly(req, path) ==
    IF path = HealthPath THEN NoResponse
    ELSE IF ~Truthy(HeaderGet(req.headers, "X-API-Key"))
         THEN [status |-> StatusUnauthorized, headers |-> NoHeaders,
               body |-> JsonStringify(MissingKeyBody)]
         ELSE NoResponse

\* validateApiKey answering a missing key with the body of an invalid one.
validateApiKey_MissingAsInvalid(req, path) ==
    IF path = HealthPath THEN NoResponse
    ELSE IF HeaderGet(req.headers, "X-API-Key") # AcceptedApiKey
         THEN [status |-> StatusUnauthorized, headers |-> NoHeaders,
               body |-> JsonStringify(InvalidKeyBody)]
         ELSE NoResponse

\* validateApiKey without the health-path exemption.
validateApiKey_NoExemption(req, path) ==
    LET providedApiKey == HeaderGet(req.headers, "X-API-Key") IN
    IF ~Truthy(providedApiKey)
    THEN [status |-> StatusUnauthorized, headers |-> NoHeaders,
          body |-> JsonStringify(MissingKeyBody)]
    ELSE IF providedApiKey # AcceptedApiKey
    THEN [status |-> StatusUnauthorized, headers |-> NoHeaders,
          body |-> JsonStringify(InvalidKeyBody)]
    ELSE NoResponse

\* validateApiKey(request, path): NoResponse stands for the null it returns
\* when the request may proceed.
validateApiKey(req, path) ==
    IF path = HealthPath THEN NoResponse
    ELSE LET providedApiKey == HeaderGet(req.headers, "X-API-Key") IN
         IF ~Truthy(providedApiKey)
         THEN NextResponseJson(MissingKeyBody, StatusUnauthorized, NoHeaders)
         ELSE IF providedApiKey # AcceptedApiKey
         THEN NextResponseJson(InvalidKeyBody, StatusUnauthorized, NoHeaders)
         ELSE NoResponse

\* createHeaders(apiKey?)
createHeaders(apiKey) ==
    LET headers == ("Content-Type" :> "application/json") IN
    IF Truthy(apiKey) THEN HeaderSet(headers, "X-API-Key", apiKey) ELSE headers

\* `${SCHEDULER_API_BASE}/${path}`
UpstreamUrl(req, path) == SCHEDULER_API_BASE \o "/" \o path

\* fetch called with the client's own X-API-Key passed on.
FetchCall_ForwardsClientKey(req, method, path, body) ==
    [url |-> UpstreamUrl(req, path),
     method |-> method,
     headers |-> createHeaders(HeaderGet(req.headers, "X-API-Key")),
     body |-> IF Truthy(body) THEN body ELSE Undefined]

\* The argument of fetch(url, {method, headers, body}).
FetchCall(req, method, path, body) ==
    [url |-> UpstreamUrl(req, path),
     method |-> method,
     headers |-> createHeaders(IF path # HealthPath THEN apiKeyEnv ELSE Undefined),
     body |-> IF Truthy(body) THEN body ELSE Undefined]

\* Exceptions as the catch block sees them: the constructor and the message.
FetchFailedError == [name |-> "TypeError", message |-> "fetch failed"]
BodyTerminatedError == [name |-> "TypeError", message |-> "terminated"]
JsonSyntaxError == [name |-> "SyntaxError", message |-> "Unexpected token in JSON"]

\* The connection test without the look at the message.
IsConnectionError_AnyTypeError(error) == error.name = "TypeError"

\* error instanceof TypeError && error.message.includes('fetch')
IsConnectionError(error) ==
    error.name = "TypeError" /\ Includes(error.message, "fetch")

\* The catch block of proxyRequest.
ProxyCatch(error) ==
    IF IsConnectionError(error)
    THEN NextResponseJson(BackendUnavailableBody, StatusBackendUnavailable, CorsHeaders)
    ELSE NextResponseJson(ProxyErrorBody, StatusProxyError, CorsHeaders)

\* The relay answering 200 whatever the upstream status was.
ProxyRelay_AlwaysOk(status, data) ==
    [status |-> StatusOk, headers |-> CorsHeaders, body |-> JsonStringify(data)]

\* NextResponse.json(data, {status: response.status, headers: CORS})
ProxyRelay(status, data) == NextResponseJson(data, status, CorsHeaders)

-----------------------------------------------------------------------------
(* The environment: inbound requests, process configuration, the upstream *)

\* process.env.API_KEY: not set, or the value of one of the documented
\* environment files.
ApiKeyEnvValues == {Undefined, "dev-api-key-12345"}

Methods == {"GET", "POST", "PUT", "DELETE", "OPTIONS"}

\* params.path of the catch-all route: the segments after /api/proxy/.
PathSegments == {<<"system", "health">>, <<"system", "status">>, <<"jobs">>}

\* The query string of the inbound URL ("" when there is none).
QueryStrings == {"", "?page=2&limit=10"}

\* What request.headers.get('X-API-Key') can return.
InboundApiKeys ==
    {Null, "", AcceptedApiKey, "Client-Request", "client- request", "wrong-key"}

InboundBodies == {"", "{\"graceful\":true,\"timeout\":30000}"}

InboundHeaders(key, auth, origin, cookie) ==
    LET all == ("X-API-Key" :> key) @@ ("Authorization" :> auth)
               @@ ("Origin" :> origin) @@ ("Cookie" :> cookie)
    IN [n \in {m \in DOMAIN all : all[m] # Null} |-> all[n]]

InboundRequests ==
    {[method |-> m, path |-> p, query |-> q, body |-> b,
      headers |-> InboundHeaders(k, a, o, c)] :
        m \in Methods, p \in PathSegments, q \in QueryStrings, b \in InboundBodies,
        k \in InboundApiKeys, a \in {Null, "Bearer token-1"},
        o \in {Null, "http://localhost:3000"}, c \in {Null, "session=abc"}}

NoRequest ==
    [method |-> "", path |-> <<>>, query |-> "", body |-> "", headers |-> NoHeaders]

\* What the upstream can answer: a status line and a body, whose stream is
\* read to its end or breaks off while response.json() reads it.
UpstreamDoc == [success |-> TRUE, data |-> [status |-> "healthy"]]

UpstreamReplies ==
    {[status |-> st, body |-> b, complete |-> TRUE] :
        st \in {200, 401, 500},
        b \in {JsonText(UpstreamDoc, FALSE), JsonText(UpstreamDoc, TRUE),
               RawText("<html>Bad Gateway</html>")}}
    \cup {[status |-> 204, body |-> EmptyBody, complete |-> TRUE]}
    \cup {[status |-> 200, body |-> JsonText(UpstreamDoc, FALSE), complete |-> FALSE]}

NoReply == [status |-> 0, body |-> EmptyBody, complete |-> TRUE]
NoUpstream == [kind |-> "none", reply |-> NoReply]

-----------------------------------------------------------------------------
(* The route module: handlers *)

\* proxyRequest up to its first suspension: validation, then either the
\* rejection is returned or fetch is called and awaited.
proxyRequest(req, method, path, body) ==
    LET validation == validateApiKey(req, path) IN
    /\ validationError' = validation
    /\ upstream' = NoUpstream
    /\ IF validation # NoResponse
       THEN /\ response' = validation
            /\ fetchCalls' = <<>>
            /\ pc' = "responded"
       ELSE /\ response' = NoResponse
            /\ fetchCalls' = <<FetchCall(req, method, path, body)>>
            /\ pc' = "fetching"

\* resolvedParams?.path?.join('/') || ''
RequestPath(req) == Join(req.path, "/")

GET(req) ==
    /\ pc = "idle"
    /\ req.method = "GET"
    /\ request' = req
    /\ proxyRequest(req, "GET", RequestPath(req), Undefined)
    /\ UNCHANGED apiKeyEnv

POST(req) ==
    /\ pc = "idle"
    /\ req.method = "POST"
    /\ request' = req
    /\ proxyRequest(req, "POST", RequestPath(req), req.body)
    /\ UNCHANGED apiKeyEnv

PUT(req) ==
    /\ pc = "idle"
    /\ req.method = "PUT"
    /\ request' = req
    /\ proxyRequest(req, "PUT", RequestPath(req), req.body)
    /\ UNCHANGED apiKeyEnv

DELETE(req) ==
    /\ pc = "idle"
    /\ req.method = "DELETE"
    /\ request' = req
    /\ proxyRequest(req, "DELETE", RequestPath(req), Undefined)
    /\ UNCHANGED apiKeyEnv

OPTIONS(req) ==
    /\ pc = "idle"
    /\ req.method = "OPTIONS"
    /\ request' = req
    /\ response' = [status |-> StatusOk, headers |-> CorsHeaders, body |-> EmptyBody]
    /\ pc' = "responded"
    /\ validationError' = NoResponse
    /\ fetchCalls' = <<>>
    /\ upstream' = NoUpstream
    /\ UNCHANGED apiKeyEnv

\* await fetch(...) rejects: the connection to the upstream cannot be made.
FetchRejected ==
    /\ pc = "fetching"
    /\ upstream' = [kind |-> "refused", reply |-> NoReply]
    /\ response' = ProxyCatch(FetchFailedError)
    /\ pc' = "responded"
    /\ UNCHANGED <<apiKeyEnv, request, validationError, fetchCalls>>

\* await fetch(...) fulfils; response.json() is awaited and the relayed
\* response is built, or what it throws is caught.
FetchFulfilled(reply) ==
    /\ pc = "fetching"
    /\ upstream' = [kind |-> "replied", reply |-> reply]
    /\ response' =
          IF ~reply.complete THEN ProxyCatch(BodyTerminatedError)
          ELSE IF ~reply.body.wellFormed THEN ProxyCatch(JsonSyntaxError)
          ELSE ProxyRelay(reply.status, reply.body.doc)
    /\ pc' = "responded"
    /\ UNCHANGED <<apiKeyEnv, request, validationError, fetchCalls>>

\* The returned response goes out; the handler's locals are gone.
ResponseSent ==
    /\ pc = "responded"
    /\ pc' = "idle"
    /\ request' = NoRequest
    /\ validationError' = NoResponse
    /\ fetchCalls' = <<>>
    /\ upstream' = NoUpstream
    /\ response' = NoResponse
    /\ UNCHANGED apiKeyEnv

\* The client's unwrapping is not running.
NormAtRest ==
    /\ normPc = "off"
    /\ normFn = "none"
    /\ normInput = [payload |-> JsUndefined, depth |-> 0, body |-> JsUndefined]
    /\ normResult = Returned(JsUndefined)
    /\ normAgain = Returned(JsUndefined)

QueryKeys == {"scheduler-status", "health", "stats"}
LifecycleOps == {"start", "stop", "restart"}

NoToast == [type |-> "none", context |-> "none", message |-> "none"]
Event(kind, what, reconciled) == [kind |-> kind, what |-> what, reconciled |-> reconciled]
NoEvent == Event("none", "none", FALSE)

\* The Home page before it is mounted.
ControlAtRest ==
    /\ isClient = FALSE
    /\ optimisticSchedulerState = JsNull
    /\ operationInProgress = JsNull
    /\ queryData = [key \in QueryKeys |-> JsUndefined]
    /\ fetching = {}
    /\ fresh = {}
    /\ mutationStatus = [op \in LifecycleOps |-> "idle"]
    /\ timers = 0
    /\ lifecycleCalls = <<>>
    /\ lastToast = NoToast
    /\ lastEvent = NoEvent

\* The job pages with nothing asked of them.
JobsAtRest ==
    /\ deleteConfirm = FALSE
    /\ jobPending = {}
    /\ jobCalls = <<>>

EmptyForm == [username |-> "", rememberMe |-> FALSE]
NoLoginData == [username |-> "", password |-> "", rememberMe |-> FALSE]

\* The login page not on screen, nothing remembered.
LoginAtRest ==
    /\ rememberedUsername = Null
    /\ loginMounted = FALSE
    /\ loginForm = EmptyForm
    /\ isLoading = FALSE
    /\ loginData = NoLoginData
    /\ loginOutcome = "none"
    /\ loginHistory = <<>>

\* The query keys the job pages poll.
PolledKeys == {"scheduler-status", "jobs", "job", "executions", "next-exec"}

\* No job page on screen, no fetch under way.
PollAtRest ==
    /\ pollPage = "none"
    /\ pollCalls = [key \in PolledKeys |-> 0]
    /\ pollEvent = NoEvent

\* The gateway with no request in hand.
GatewayAtRest ==
    /\ apiKeyEnv = Undefined
    /\ pc = "idle"
    /\ request = NoRequest
    /\ validationError = NoResponse
    /\ fetchCalls = <<>>
    /\ upstream = NoUpstream
    /\ response = NoResponse

GatewayInit ==
    /\ NormAtRest
    /\ ControlAtRest
    /\ JobsAtRest
    /\ LoginAtRest
    /\ PollAtRest
    /\ apiKeyEnv \in ApiKeyEnvValues
    /\ pc = "idle"
    /\ request = NoRequest
    /\ validationError = NoResponse
    /\ fetchCalls = <<>>
    /\ upstream = NoUpstream
    /\ response = NoResponse

\* The variables of the other components, which no gateway action touches.
GatewayFrame == UNCHANGED <<normVars, controlVars, jobVars, loginVars, pollVars>>

GatewayNext ==
    \/ \E req \in InboundRequests : GET(req) /\ GatewayFrame
    \/ \E req \in InboundRequests : POST(req) /\ GatewayFrame
    \/ \E req \in InboundRequests : PUT(req) /\ GatewayFrame
    \/ \E req \in InboundRequests : DELETE(req) /\ GatewayFrame
    \/ \E req \in InboundRequests : OPTIONS(req) /\ GatewayFrame
    \/ FetchRejected /\ GatewayFrame
    \/ \E reply \in UpstreamReplies : FetchFulfilled(reply) /\ GatewayFrame
    \/ ResponseSent /\ GatewayFrame

GatewaySpec == GatewayInit /\ [][GatewayNext]_vars

-----------------------------------------------------------------------------
(* Vocabulary of the properties *)

Proxied == request.method \in {"GET", "POST", "PUT", "DELETE"}
InboundPath == RequestPath(request)
NonExempt == InboundPath # HealthPath
InboundKey == HeaderGet(request.headers, "X-API-Key")

\* The code of a response's error body, "<none>" when the body has none.
ErrorCode(resp) ==
    IF /\ resp.body.wellFormed
       /\ "error" \in DOMAIN resp.body.doc
       /\ "code" \in DOMAIN resp.body.doc.error
    THEN resp.body.doc.error.code
    ELSE "<none>"

\* The upstream answered and its body was read to the end and decoded.
UpstreamDecoded ==
    /\ upstream.kind = "replied"
    /\ upstream.reply.complete
    /\ upstream.reply.body.wellFormed

\* The body an upstream call carries ("" for none).
BodySent(call) == IF call.body = Undefined THEN "" ELSE call.body

-----------------------------------------------------------------------------
(* C1: a GET/POST/PUT/DELETE request on a non-exempt path whose X-API-Key   *)
(* is absent or is not the accepted value is answered 401 by the handler   *)
(* itself, with no upstream call made for it: the handler never suspends   *)
(* at fetch and the call log of the request is empty.                      *)
C1_RejectedBeforeUpstream ==
    (pc # "idle" /\ Proxied /\ NonExempt /\ InboundKey # AcceptedApiKey)
        => /\ pc = "responded"
           /\ response.status = 401
           /\ fetchCalls = <<>>
           /\ upstream = NoUpstream

C1_Witness ==
    /\ pc = "responded" /\ Proxied /\ NonExempt
    /\ InboundKey = "wrong-key"
    /\ response.status = 401
    /\ Len(fetchCalls) = 0

(* C2, as claimed: a request on a non-exempt path with no X-API-Key header  *)
(* is answered 401 with the error code AUTH_MISSING.                        *)
C2_AuthMissingCode ==
    (pc = "responded" /\ Proxied /\ NonExempt /\ InboundKey = Null)
        => /\ response.status = 401
           /\ ErrorCode(response) = "AUTH_MISSING"

(* C2, amended: such a request is answered 401 with a body whose error is   *)
(* the plain string 'Missing X-API-Key header' and that carries no error    *)
(* code at all, so in particular not the UNAUTHORIZED code of a wrong key.  *)
C2_MissingKeyRejected ==
    (pc = "responded" /\ Proxied /\ NonExempt /\ InboundKey = Null)
        => /\ response.status = 401
           /\ response.body.wellFormed
           /\ response.body.doc.success = FALSE
           /\ response.body.doc.error = JsonString("Missing X-API-Key header")
           /\ ErrorCode(response) = "<none>"
           /\ ErrorCode(response) # "UNAUTHORIZED"

C2_Witness ==
    /\ pc = "responded" /\ Proxied /\ NonExempt
    /\ InboundKey = Null
    /\ response.status = 401
    /\ response.body.doc.error = JsonString("Missing X-API-Key header")

(* C3, as claimed: every X-API-Key value that is present on a non-exempt    *)
(* request and is not exactly the accepted token, the empty string          *)
(* included, is answered 401 with the error code UNAUTHORIZED.              *)
C3_InvalidKeyUnauthorized ==
    (pc = "responded" /\ Proxied /\ NonExempt
        /\ InboundKey # Null /\ InboundKey # AcceptedApiKey)
        => /\ response.status = 401
           /\ ErrorCode(response) = "UNAUTHORIZED"

C5_QueryStringForwarded ==
    \A i \in 1..Len(fetchCalls) :
        fetchCalls[i].url = SCHEDULER_API_BASE \o "/" \o InboundPath \o request.query

(* C6, as claimed: the headers of an upstream call are exactly Content-Type, *)
(* the inbound Authorization when there is one, the inbound Origin when      *)
(* there is one, and on a non-exempt path the configured upstream secret.    *)
C6_ExpectedUpstreamHeaders ==
    LET forwarded == [n \in DOMAIN request.headers \cap {"Authorization", "Origin"}
                        |-> request.headers[n]]
        base == forwarded @@ ("Content-Type" :> "application/json")
    IN IF NonExempt /\ Truthy(apiKeyEnv)
       THEN HeaderSet(base, "X-API-Key", apiKeyEnv)
       ELSE base

C6_HeaderPolicy ==
    \A i \in 1..Len(fetchCalls) : fetchCalls[i].headers = C6_ExpectedUpstreamHeaders

(* C7, as claimed: every upstream call for a non-exempt path carries an     *)
(* X-API-Key, the configured secret, and a call for the health path carries *)
(* none; the value sent is never the client's 'client-request'.             *)
C7_SecretAlwaysSent ==
    \A i \in 1..Len(fetchCalls) :
        LET h == fetchCalls[i].headers IN
        /\ NonExempt => /\ "X-API-Key" \in DOMAIN h
                        /\ h["X-API-Key"] = apiKeyEnv
                        /\ h["X-API-Key"] # AcceptedApiKey
        /\ ~NonExempt => "X-API-Key" \notin DOMAIN h

(* C7, amended: on a call for a non-exempt path the X-API-Key sent is the   *)
(* value of process.env.API_KEY when that is set and not empty, and no      *)
(* X-API-Key is sent when it is not; a call for the health path carries     *)
(* none; whatever the client sent as X-API-Key is never what goes upstream. *)
C7_UpstreamKeyFromConfig ==
    \A i \in 1..Len(fetchCalls) :
        LET sent == HeaderGet(fetchCalls[i].headers, "X-API-Key") IN
        /\ NonExempt => sent = (IF Truthy(apiKeyEnv) THEN apiKeyEnv ELSE Null)
        /\ ~NonExempt => sent = Null
        /\ sent # AcceptedApiKey
        /\ sent # Null => sent # InboundKey

C7_Witness ==
    /\ pc = "fetching" /\ Proxied /\ NonExempt
    /\ InboundKey = AcceptedApiKey
    /\ apiKeyEnv = "dev-api-key-12345"
    /\ HeaderGet(fetchCalls[1].headers, "X-API-Key") = "dev-api-key-12345"

(* C8: when the connection to the upstream cannot be made the caller gets   *)
(* 503 BACKEND_UNAVAILABLE; when the upstream answered but its body could   *)
(* not be read or decoded the caller gets 500 PROXY_ERROR; neither failure  *)
(* is reported with the other's status or code.                             *)
C8_FailureClassification ==
    pc = "responded" =>
        /\ upstream.kind = "refused"
              => /\ response.status = 503
                 /\ ErrorCode(response) = "BACKEND_UNAVAILABLE"
        /\ (upstream.kind = "replied" /\ ~UpstreamDecoded)
              => /\ response.status = 500
                 /\ ErrorCode(response) = "PROXY_ERROR"
        /\ ErrorCode(response) = "BACKEND_UNAVAILABLE" => upstream.kind = "refused"
        /\ ErrorCode(response) = "PROXY_ERROR"
              => (upstream.kind = "replied" /\ ~UpstreamDecoded)

C8_Witness ==
    /\ pc = "responded" /\ Proxied
    /\ upstream.kind = "refused"
    /\ response.status = 503
    /\ ErrorCode(response) = "BACKEND_UNAVAILABLE"

C10_CorsOnEveryResponse ==
    pc = "responded" =>
        /\ \A n \in DOMAIN CorsHeaders :
              n \in DOMAIN response.headers /\ response.headers[n] = CorsHeaders[n]
        /\ request.method = "OPTIONS"
              => (response.status = 200 /\ fetchCalls = <<>>)

(* C11, as claimed: every error body the gateway itself produces, for a     *)
(* missing key, a wrong key, an unreachable upstream and any other relay    *)
(* failure, has success false and a timestamp field.                        *)
GatewayError ==
    /\ pc = "responded"
    /\ Proxied
    /\ \/ validationError # NoResponse
       \/ upstream.kind = "refused"
       \/ (upstream.kind = "replied" /\ ~UpstreamDecoded)

C11_ErrorBodyHasTimestamp ==
    GatewayError =>
        /\ response.body.wellFormed
        /\ response.body.doc.success = FALSE
        /\ "timestamp" \in DOMAIN response.body.doc

-----------------------------------------------------------------------------
(* The client library (src/lib/api.ts): unwrapping nested response bodies   *)

\* An unwrapping that strips {success, data} envelopes, one after the other,
\* and nothing else.
RECURSIVE getHealth_EnvelopesOnly(_)
getHealth_EnvelopesOnly(body) ==
    IF IsJsObject(body) /\ DOMAIN body = {"success", "data"}
    THEN getHealth_EnvelopesOnly(body.data)
    ELSE Returned(body)

\* getHealth and getStats:
\*   response.data?.data?.data || response.data?.data || response.data
getHealth(body) ==
    LET inner == OptionalGet(OptionalGet(body, "data"), "data")
        outer == OptionalGet(body, "data")
    IN IF JsTruthy(inner) THEN Returned(inner)
       ELSE IF JsTruthy(outer) THEN Returned(outer)
       ELSE Returned(body)

getStats(body) == getHealth(body)

\* startScheduler, stopScheduler, restartScheduler and getSchedulerStatus:
\*   data.data?.data || data.data || data
\* where data.data throws a TypeError when data is null or undefined.
startScheduler(data) ==
    IF IsNullish(data) THEN ThrewTypeError
    ELSE LET inner == OptionalGet(PropertyGet(data, "data"), "data")
             outer == PropertyGet(data, "data")
         IN IF JsTruthy(inner) THEN Returned(inner)
            ELSE IF JsTruthy(outer) THEN Returned(outer)
            ELSE Returned(data)

stopScheduler(data) == startScheduler(data)
restartScheduler(data) == startScheduler(data)

\* An unwrapping of one level only: data.data || data.
getSchedulerStatus_OneLevel(data) ==
    IF IsNullish(data) THEN ThrewTypeError
    ELSE IF JsTruthy(PropertyGet(data, "data")) THEN Returned(PropertyGet(data, "data"))
    ELSE Returned(data)

getSchedulerStatus(data) == startScheduler(data)

ApiFunctions ==
    {"getHealth", "getStats", "startScheduler", "stopScheduler",
     "restartScheduler", "getSchedulerStatus"}

Unwrap(fn, body) ==
    CASE fn = "getHealth" -> getHealth(body)
      [] fn = "getStats" -> getStats(body)
      [] fn = "startScheduler" -> startScheduler(body)
      [] fn = "stopScheduler" -> stopScheduler(body)
      [] fn = "restartScheduler" -> restartScheduler(body)
      [] fn = "getSchedulerStatus" -> getSchedulerStatus(body)

(* Response bodies: a payload inside 0..MaxEnvelopeDepth envelopes.         *)
MaxEnvelopeDepth == 3

\* Payloads that are not themselves {success, data} envelopes.
Payloads ==
    { [status |-> JsonString("healthy")],                         \* an object
      [isRunning |-> JsBoolean(TRUE), status |-> JsonString("running")],
      [items |-> JsArray(<<JsNumber(1)>>), pagination |-> [page |-> JsNumber(1)]],
                                                                  \* a named collection
      [data |-> JsArray(<<JsNumber(1)>>), total |-> JsNumber(1)], \* has a field called data
      [data |-> [isRunning |-> JsBoolean(TRUE), status |-> JsonString("running")]],
      JsArray(<<JsNumber(1), JsNumber(2)>>), JsArray(<<>>),       \* arrays
      JsNumber(5), JsonString("ok"), JsBoolean(TRUE),             \* truthy scalars
      JsNumber(0), JsBoolean(FALSE), JsonString(""), JsNull }     \* falsy scalars

RECURSIVE Envelop(_, _, _)
Envelop(payload, depth, success) ==
    IF depth = 0 THEN payload
    ELSE [success |-> JsBoolean(success),
          data |-> Envelop(payload, depth - 1, success)]

NormInputs ==
    {[payload |-> p, depth |-> d, body |-> Envelop(p, d, ok)] :
        p \in Payloads, d \in 0..MaxEnvelopeDepth, ok \in BOOLEAN}

\* A response body arrives.
NormReceive(input) ==
    /\ normPc = "off"
    /\ normPc' = "input"
    /\ normInput' = input
    /\ UNCHANGED <<normFn, normResult, normAgain>>

\* One of the six functions unwraps it and returns.
NormApply(fn) ==
    /\ normPc = "input"
    /\ normFn' = fn
    /\ normResult' = Unwrap(fn, normInput.body)
    /\ normPc' = "once"
    /\ UNCHANGED <<normInput, normAgain>>

\* The returned value is unwrapped once more by the same function.
NormApplyAgain ==
    /\ normPc = "once"
    /\ ~normResult.threw
    /\ normAgain' = Unwrap(normFn, normResult.value)
    /\ normPc' = "twice"
    /\ UNCHANGED <<normFn, normInput, normResult>>

NormInit ==
    /\ NormAtRest
    /\ GatewayAtRest
    /\ ControlAtRest
    /\ JobsAtRest
    /\ LoginAtRest
    /\ PollAtRest

NormFrame == UNCHANGED <<gatewayVars, controlVars, jobVars, loginVars, pollVars>>

NormNext ==
    \/ \E input \in NormInputs : NormReceive(input) /\ NormFrame
    \/ \E fn \in ApiFunctions : NormApply(fn) /\ NormFrame
    \/ NormApplyAgain /\ NormFrame

NormSpec == NormInit /\ [][NormNext]_vars

(* C12, as claimed: unwrapping is idempotent on every payload inside 0, 1,  *)
(* 2 or 3 envelopes: unwrapping the result again returns the result.        *)
C12_Idempotent ==
    (normPc = "twice" /\ normInput.depth <= 3)
        => (~normAgain.threw /\ normAgain.value = normResult.value)

(* C13, as claimed: for every payload that is not itself an envelope,       *)
(* falsy scalars included, inside 0, 1 or 2 envelopes, the unwrapping       *)
(* returns exactly the payload and does not throw.                          *)
C13_ReturnsPayload ==
    (normPc = "once" /\ normInput.depth <= 2)
        => (~normResult.threw /\ normResult.value = normInput.payload)

(* C14, as claimed: an array, or an object that has no boolean success      *)
(* field, is terminal: the unwrapping returns it as it is, also when it has *)
(* a field called data.                                                     *)
IsArrayOrObject(v) == IsJsObject(v) \/ "array" \in DOMAIN v

-----------------------------------------------------------------------------
(* The Home page (src/app/page.tsx): the scheduler's start, stop and        *)
(* restart buttons, the optimistic state they set, and the three queries.   *)

schedulerData == queryData["scheduler-status"]

\* schedulerData?.isRunning, for a given cache
IsRunningIn(data) == OptionalGet(data["scheduler-status"], "isRunning")
isRunning == IsRunningIn(queryData)

\* optimisticSchedulerState !== null ? optimisticSchedulerState : schedulerData?.isRunning
currentSchedulerState ==
    IF optimisticSchedulerState # JsNull THEN optimisticSchedulerState ELSE isRunning

IsPending(op) == mutationStatus[op] = "pending"

isAnyOperationInProgress ==
    \/ IsPending("start")
    \/ IsPending("stop")
    \/ IsPending("restart")
    \/ operationInProgress # JsNull

\* The start button without its state test: disabled only while busy.
isStartDisabled_BusyOnly == isAnyOperationInProgress

isStartDisabled == currentSchedulerState = JsBoolean(TRUE) \/ isAnyOperationInProgress

\* The stop button without its busy test: disabled only when Stopped.
isStopDisabled_StateOnly == currentSchedulerState = JsBoolean(FALSE)

isStopDisabled == currentSchedulerState = JsBoolean(FALSE) \/ isAnyOperationInProgress

\* The restart button refusing like the start button does.
isRestartDisabled_LikeStart ==
    currentSchedulerState = JsBoolean(TRUE) \/ isAnyOperationInProgress

isRestartDisabled == isAnyOperationInProgress

\* The disabled attribute of the button that calls <op>Mutation.mutate().
Disabled(op) ==
    CASE op = "start" -> isStartDisabled
      [] op = "stop" -> isStopDisabled
      [] op = "restart" -> isRestartDisabled

\* The text beside the status dot.
StatusLabel ==
    IF operationInProgress = JsonString("starting") THEN "Starting..."
    ELSE IF operationInProgress = JsonString("stopping") THEN "Stopping..."
    ELSE IF operationInProgress = JsonString("restarting") THEN "Restarting..."
    ELSE IF JsTruthy(currentSchedulerState) THEN "Running"
    ELSE "Stopped"

\* What onMutate passes to setOptimisticSchedulerState and setOperationInProgress.
OptimisticTarget(op) ==
    CASE op = "start" -> JsBoolean(TRUE)
      [] op = "stop" -> JsBoolean(FALSE)
      [] op = "restart" -> JsBoolean(TRUE)

OperationMarker(op) ==
    CASE op = "start" -> JsonString("starting")
      [] op = "stop" -> JsonString("stopping")
      [] op = "restart" -> JsonString("restarting")

\* The effect on [schedulerData?.isRunning, optimisticSchedulerState]: whether
\* it clears the optimistic state and the marker, given the values rendered.
ReconcileMatches(optimistic, data) ==
    /\ IsRunningIn(data) # JsUndefined
    /\ optimistic # JsNull
    /\ IsRunningIn(data) = optimistic

\* The state after the handler's updates are rendered and the effect has run.
\* React runs a pending effect before it handles the next event or update.
Render(optimistic, marker, data) ==
    /\ queryData' = data
    /\ optimisticSchedulerState' =
          IF ReconcileMatches(optimistic, data) THEN JsNull ELSE optimistic
    /\ operationInProgress' =
          IF ReconcileMatches(optimistic, data) THEN JsNull ELSE marker

(* Response bodies the page's calls receive through the gateway.            *)
StatusRunningBody ==
    [success |-> JsBoolean(TRUE),
     data |-> [data |-> [isRunning |-> JsBoolean(TRUE),
                         status |-> JsonString("running")]]]

StatusStoppedBody ==
    [success |-> JsBoolean(TRUE),
     data |-> [isRunning |-> JsBoolean(FALSE), status |-> JsonString("stopped")]]

QueryBodies(key) ==
    CASE key = "scheduler-status" -> {StatusRunningBody, StatusStoppedBody, JsNull}
      [] key = "health" ->
            {[success |-> JsBoolean(TRUE), data |-> [status |-> JsonString("healthy")]]}
      [] key = "stats" ->
            {[success |-> JsBoolean(TRUE), data |-> [totalJobs |-> JsNumber(2)]]}

MutationBodies ==
    {[success |-> JsBoolean(TRUE), data |-> [message |-> JsonString("ok")]], JsNull}

queryFn(key, body) ==
    CASE key = "scheduler-status" -> getSchedulerStatus(body)
      [] key = "health" -> getHealth(body)
      [] key = "stats" -> getStats(body)

mutationFn(op, body) ==
    CASE op = "start" -> startScheduler(body)
      [] op = "stop" -> stopScheduler(body)
      [] op = "restart" -> restartScheduler(body)

\* The number of start, stop and restart requests followed.
MaxOperations == 2

\* useEffect(() => setIsClient(true), []): the three queries become enabled.
Mount ==
    /\ ~isClient
    /\ isClient' = TRUE
    /\ fetching' = QueryKeys
    /\ lastEvent' = Event("mounted", "page", FALSE)
    /\ UNCHANGED <<optimisticSchedulerState, operationInProgress, queryData, fresh,
                   mutationStatus, timers, lifecycleCalls, lastToast>>

\* staleTime: 30000 runs out for a query's data.
StaleTimeElapsed(key) ==
    /\ key \in fresh
    /\ fresh' = fresh \ {key}
    /\ lastEvent' = Event("stale", key, FALSE)
    /\ UNCHANGED <<isClient, optimisticSchedulerState, operationInProgress, queryData,
                   fetching, mutationStatus, timers, lifecycleCalls, lastToast>>

\* A query is read again (window focus, reconnect): the page's queries have
\* no refetchInterval.  Data younger than staleTime is served from the cache;
\* stale data is fetched again.
Refetch(key) ==
    /\ isClient
    /\ key \notin fetching
    /\ IF key \in fresh
       THEN /\ lastEvent' = Event("cached", key, FALSE)
            /\ UNCHANGED fetching
       ELSE /\ lastEvent' = Event("refetch", key, FALSE)
            /\ fetching' = fetching \cup {key}
    /\ UNCHANGED <<isClient, optimisticSchedulerState, operationInProgress, queryData,
                   fresh, mutationStatus, timers, lifecycleCalls, lastToast>>

\* A query's call returns a body: the api.ts function unwraps it and the
\* cache takes the value, fresh for the Home page's staleTime (the job pages
\* set none); when the function throws, the cache keeps its data.
QueryFulfilled(key, body) ==
    /\ key \in fetching
    /\ fetching' = fetching \ {key}
    /\ LET result == queryFn(key, body)
           data == IF result.threw THEN queryData
                   ELSE [queryData EXCEPT ![key] = result.value]
       IN /\ Render(optimisticSchedulerState, operationInProgress, data)
          /\ fresh' = IF result.threw \/ ~isClient THEN fresh ELSE fresh \cup {key}
          /\ lastEvent' = Event(IF result.threw THEN "queryThrew" ELSE "polled", key,
                                ReconcileMatches(optimisticSchedulerState, data))
    /\ UNCHANGED <<isClient, mutationStatus, timers, lifecycleCalls, lastToast>>

\* A failed query that also drops the optimistic state.
QueryRejected_DropsOptimistic(key) ==
    /\ key \in fetching
    /\ fetching' = fetching \ {key}
    /\ Render(JsNull, operationInProgress, queryData)
    /\ lastEvent' = Event("queryError", key, FALSE)
    /\ UNCHANGED <<isClient, fresh, mutationStatus, timers, lifecycleCalls, lastToast>>

\* A query's call fails (after its one retry): the cache keeps its data.
QueryRejected(key) ==
    /\ key \in fetching
    /\ fetching' = fetching \ {key}
    /\ lastEvent' = Event("queryError", key, FALSE)
    /\ UNCHANGED <<isClient, optimisticSchedulerState, operationInProgress, queryData,
                   fresh, mutationStatus, timers, lifecycleCalls, lastToast>>

\* onMutate of startMutation, stopMutation and restartMutation, rendered.
onMutate(op) == Render(OptimisticTarget(op), OperationMarker(op), queryData)

\* A click on the start, stop or restart button.  A disabled button runs no
\* handler; an enabled one calls mutate(): onMutate, then the mutationFn
\* sends the request.
Click(op) ==
    /\ isClient
    /\ IF Disabled(op)
       THEN /\ lastEvent' = Event("refused", op, FALSE)
            /\ UNCHANGED <<optimisticSchedulerState, operationInProgress, queryData,
                           mutationStatus, lifecycleCalls>>
       ELSE /\ Len(lifecycleCalls) < MaxOperations
            /\ mutationStatus' = [mutationStatus EXCEPT ![op] = "pending"]
            /\ onMutate(op)
            /\ lifecycleCalls' = Append(lifecycleCalls, op)
            /\ lastEvent' = Event("issued", op,
                                  ReconcileMatches(OptimisticTarget(op), queryData))
    /\ UNCHANGED <<isClient, fetching, fresh, timers, lastToast>>

\* onSuccess without the delayed clearing of the marker.
onSuccess_NoTimer(op) ==
    /\ lastToast' = [type |-> "success", context |-> op, message |-> "ok"]
    /\ fetching' = QueryKeys
    /\ fresh' = {}
    /\ UNCHANGED timers

\* onSuccess without the invalidation of the queries.
onSuccess_NoInvalidate(op) ==
    /\ lastToast' = [type |-> "success", context |-> op, message |-> "ok"]
    /\ UNCHANGED <<fetching, fresh>>
    /\ timers' = timers + 1

\* onSuccess: toast, invalidate the three queries (their data is stale at
\* once and, all being active, they are fetched again), and start the 1 s
\* timer that clears the marker.
onSuccess(op) ==
    /\ lastToast' = [type |-> "success", context |-> op, message |-> "ok"]
    /\ fetching' = QueryKeys
    /\ fresh' = {}
    /\ timers' = timers + 1

\* onError without the rollback.
onError_NoRollback(op, error) ==
    /\ UNCHANGED <<optimisticSchedulerState, operationInProgress, queryData>>
    /\ lastToast' = [type |-> "error", context |-> op, message |-> error]

\* onError: roll the optimistic state back and hand the error to
\* createErrorHandler, which shows an error toast with the error's message.
onError(op, error) ==
    /\ Render(JsNull, JsNull, queryData)
    /\ lastToast' = [type |-> "error", context |-> op, message |-> error]

\* The request returns a body.  The mutation succeeds unless the api.ts
\* function throws on it.
MutationFulfilled(op, body) ==
    /\ IsPending(op)
    /\ IF mutationFn(op, body).threw
       THEN /\ mutationStatus' = [mutationStatus EXCEPT ![op] = "error"]
            /\ onError(op, "TypeError")
            /\ lastEvent' = Event("failed", op, FALSE)
            /\ UNCHANGED <<fetching, fresh, timers>>
       ELSE /\ mutationStatus' = [mutationStatus EXCEPT ![op] = "success"]
            /\ onSuccess(op)
            /\ lastEvent' = Event("succeeded", op, FALSE)
            /\ UNCHANGED <<optimisticSchedulerState, operationInProgress, queryData>>
    /\ UNCHANGED <<isClient, lifecycleCalls>>

\* The request fails (network error, timeout, or a non-2xx status).
MutationRejected(op) ==
    /\ IsPending(op)
    /\ mutationStatus' = [mutationStatus EXCEPT ![op] = "error"]
    /\ onError(op, "AxiosError")
    /\ lastEvent' = Event("failed", op, FALSE)
    /\ UNCHANGED <<isClient, fetching, fresh, timers, lifecycleCalls>>

\* A timer callback that also clears the optimistic state.
TimerFired_ClearsOptimistic ==
    /\ timers > 0
    /\ timers' = timers - 1
    /\ Render(JsNull, JsNull, queryData)
    /\ lastEvent' = Event("timer", "operationInProgress", FALSE)
    /\ UNCHANGED <<isClient, fetching, fresh, mutationStatus, lifecycleCalls, lastToast>>

\* setTimeout(() => setOperationInProgress(null), 1000) runs.
TimerFired ==
    /\ timers > 0
    /\ timers' = timers - 1
    /\ Render(optimisticSchedulerState, JsNull, queryData)
    /\ lastEvent' = Event("timer", "operationInProgress", FALSE)
    /\ UNCHANGED <<isClient, fetching, fresh, mutationStatus, lifecycleCalls, lastToast>>

ControlInit ==
    /\ ControlAtRest
    /\ GatewayAtRest
    /\ NormAtRest
    /\ JobsAtRest
    /\ LoginAtRest
    /\ PollAtRest

ControlFrame == UNCHANGED <<gatewayVars, normVars, jobVars, loginVars, pollVars>>

ControlNext ==
    \/ Mount /\ ControlFrame
    \/ \E key \in QueryKeys : Refetch(key) /\ ControlFrame
    \/ \E key \in QueryKeys : StaleTimeElapsed(key) /\ ControlFrame
    \/ \E key \in QueryKeys : \E body \in QueryBodies(key) :
            QueryFulfilled(key, body) /\ ControlFrame
    \/ \E key \in QueryKeys : QueryRejected(key) /\ ControlFrame
    \/ \E op \in LifecycleOps : Click(op) /\ ControlFrame
    \/ \E op \in LifecycleOps : \E body \in MutationBodies :
            MutationFulfilled(op, body) /\ ControlFrame
    \/ \E op \in LifecycleOps : MutationRejected(op) /\ ControlFrame
    \/ TimerFired /\ ControlFrame

ControlSpec == ControlInit /\ [][ControlNext]_vars

-----------------------------------------------------------------------------
(* Claims about the Home page                                               *)

\* The step is a click on the start or stop button <op>.
ClickedOn(op) == lastEvent'.what = op /\ lastEvent'.kind \in {"refused", "issued"}

(* C15, as claimed: a click on start while the effective state is already   *)
(* Running, or on stop while it is already Stopped, is refused and sends no *)
(* request; every other click on start or stop sets the optimistic state to *)
(* its target and sends the request.                                        *)
C15_RefusedOnlyAtTarget ==
    [][\A op \in {"start", "stop"} :
          ClickedOn(op) =>
             IF currentSchedulerState = OptimisticTarget(op)
             THEN /\ lastEvent'.kind = "refused"
                  /\ lifecycleCalls' = lifecycleCalls
             ELSE /\ lastEvent'.kind = "issued"
                  /\ optimisticSchedulerState' = OptimisticTarget(op)
                  /\ lifecycleCalls' = Append(lifecycleCalls, op)]_vars

(* C15, amended: a click on start or stop is refused, sends no request and  *)
(* changes no state, when the effective state already is the target (true   *)
(* for start, false for stop) or any operation is in progress (a pending    *)
(* start, stop or restart, or the marker set).  Any other click sends the   *)
(* request after onMutate has set the optimistic state to the target, which *)
(* is then the effective state; the optimistic state stays set unless the   *)
(* last polled value already equals the target, which clears it at once.    *)
C15_DisabledRefusedElseIssued ==
    [][\A op \in {"start", "stop"} :
          ClickedOn(op) =>
             IF currentSchedulerState = OptimisticTarget(op) \/ isAnyOperationInProgress
             THEN /\ lastEvent'.kind = "refused"
                  /\ lifecycleCalls' = lifecycleCalls
                  /\ UNCHANGED <<optimisticSchedulerState, operationInProgress,
                                 mutationStatus>>
             ELSE /\ lastEvent'.kind = "issued"
                  /\ lifecycleCalls' = Append(lifecycleCalls, op)
                  /\ mutationStatus'[op] = "pending"
                  /\ currentSchedulerState' = OptimisticTarget(op)
                  /\ optimisticSchedulerState' =
                        (IF isRunning = OptimisticTarget(op) THEN JsNull
                         ELSE OptimisticTarget(op))]_vars

\* Stop is clicked and refused while the page shows Stopped with nothing in
\* progress, after an earlier request was sent.
C15_Witness ==
    /\ lastEvent = Event("refused", "stop", FALSE)
    /\ currentSchedulerState = JsBoolean(FALSE)
    /\ ~isAnyOperationInProgress
    /\ Len(lifecycleCalls) = 1


\* The request sent last.
LastIssued == IF lifecycleCalls = <<>> THEN "none" ELSE lifecycleCalls[Len(lifecycleCalls)]

(* C17, as claimed: once a start call has succeeded, the page shows Starting *)
(* for as long as no poll has reported Running (the optimistic state set by *)
(* that start is still there); and a poll that reconciles leaves no         *)
(* optimistic state, the effective state being the polled value.            *)
C17_StartingUntilPolledRunning ==
    /\ (/\ LastIssued = "start"
        /\ mutationStatus["start"] = "success"
        /\ optimisticSchedulerState = JsBoolean(TRUE))
          => StatusLabel = "Starting..."
    /\ (lastEvent = Event("polled", "scheduler-status", TRUE))
          => (optimisticSchedulerState = JsNull /\ currentSchedulerState = isRunning)

(* C18: when a start, stop or restart call fails, no optimistic state is    *)
(* left, the effective state is the value the status query last cached      *)
(* (undefined when none has been received), and an error toast for that     *)
(* operation is shown.                                                      *)
C18_FailureRollsBack ==
    [][(lastEvent'.kind = "failed" /\ lastEvent'.what \in LifecycleOps)
          => /\ optimisticSchedulerState' = JsNull
             /\ operationInProgress' = JsNull
             /\ currentSchedulerState' = isRunning
             /\ queryData' = queryData
             /\ lastToast'.type = "error"
             /\ lastToast'.context = lastEvent'.what]_vars

\* A start has failed while the cache held Stopped: the page is back at Stopped.
C18_Witness ==
    /\ lastEvent = Event("failed", "start", FALSE)
    /\ isRunning = JsBoolean(FALSE)
    /\ currentSchedulerState = JsBoolean(FALSE)
    /\ lastToast.type = "error"

\* The status query has just cached what getSchedulerStatus makes of
\* {success:true, data:{data:{isRunning:true, status:"running"}}}.
PolledRunningBody ==
    /\ lastEvent.kind = "polled"
    /\ lastEvent.what = "scheduler-status"
    /\ schedulerData = getSchedulerStatus(StatusRunningBody).value

-----------------------------------------------------------------------------
(* The job pages: JobsPage, JobDetailPage, EditJobPage and NewJobPage.      *)
(* Each reads schedulerData from the "scheduler-status" query, which these  *)
(* pages fetch again every 30 s.                                            *)

JobActions == {"create", "update", "execute", "pause", "resume", "delete"}

\* The number of job-mutating requests followed.
MaxJobCalls == 2

\* !schedulerData?.isRunning
SchedulerNotRunning == ~JsTruthy(isRunning)

\* The api.ts call a job mutation makes.
JobRequest(action) ==
    CASE action = "create" -> [method |-> "POST", path |-> "jobs"]
      [] action = "update" -> [method |-> "PUT", path |-> "jobs/1"]
      [] action = "delete" -> [method |-> "DELETE", path |-> "jobs/1"]
      [] action = "execute" -> [method |-> "POST", path |-> "jobs/1/execute"]
      [] action = "pause" -> [method |-> "POST", path |-> "jobs/1/pause"]
      [] action = "resume" -> [method |-> "POST", path |-> "jobs/1/resume"]

\* The request is sent and the mutation is pending.
SendJobRequest(action) ==
    /\ Len(jobCalls) < MaxJobCalls
    /\ jobCalls' = Append(jobCalls, JobRequest(action))
    /\ jobPending' = jobPending \cup {action}
    /\ lastEvent' = Event("sent", action, FALSE)
    /\ UNCHANGED lastToast

\* The mutationFn throws before any request; onError shows the error.
RefuseJobRequest(action) ==
    /\ lastToast' = [type |-> "error", context |-> action, message |-> "Error"]
    /\ lastEvent' = Event("refused", action, FALSE)
    /\ UNCHANGED <<jobCalls, jobPending>>

\* A click on a disabled button: no handler runs.
ButtonDisabled(action) ==
    /\ lastEvent' = Event("disabled", action, FALSE)
    /\ UNCHANGED <<jobCalls, jobPending, lastToast>>

\* What the job pages leave alone of the Home page, which is not mounted.
HomeUnchanged ==
    UNCHANGED <<isClient, optimisticSchedulerState, operationInProgress, fetching,
                fresh, mutationStatus, timers, lifecycleCalls>>

\* exec, pause and resume (JobsPage, JobDetailPage): the button is disabled
\* while the scheduler is not running or the mutation is pending, and the
\* mutationFn tests the scheduler again before it calls the API.
exec(action) ==
    /\ action \in {"execute", "pause", "resume"}
    /\ IF SchedulerNotRunning \/ action \in jobPending
       THEN ButtonDisabled(action)
       ELSE IF SchedulerNotRunning
            THEN RefuseJobRequest(action)
            ELSE SendJobRequest(action)
    /\ UNCHANGED <<queryData, deleteConfirm>>
    /\ HomeUnchanged

\* onSubmit of EditJobPage ("update") and NewJobPage ("create"), by the
\* submit button or the Enter key: the handler tests the scheduler, NewJobPage
\* then turns away a submission that repeats one made moments ago, and the
\* mutationFn tests the scheduler again.
onSubmit(action, repeated) ==
    /\ action \in {"create", "update"}
    /\ action \notin jobPending
    /\ IF SchedulerNotRunning
       THEN RefuseJobRequest(action)
       ELSE IF action = "create" /\ repeated
            THEN /\ lastToast' = [type |-> "warning", context |-> action,
                                  message |-> "repeated"]
                 /\ lastEvent' = Event("refused", action, FALSE)
                 /\ UNCHANGED <<jobCalls, jobPending>>
            ELSE SendJobRequest(action)
    /\ UNCHANGED <<queryData, deleteConfirm>>
    /\ HomeUnchanged

\* handleDeleteClick: open the confirmation dialog.
handleDeleteClick ==
    /\ ~deleteConfirm
    /\ "delete" \notin jobPending
    /\ deleteConfirm' = TRUE
    /\ lastEvent' = Event("dialog", "delete", FALSE)
    /\ UNCHANGED <<queryData, jobCalls, jobPending, lastToast>>
    /\ HomeUnchanged

\* handleDeleteCancel
handleDeleteCancel ==
    /\ deleteConfirm
    /\ "delete" \notin jobPending
    /\ deleteConfirm' = FALSE
    /\ lastEvent' = Event("cancelled", "delete", FALSE)
    /\ UNCHANGED <<queryData, jobCalls, jobPending, lastToast>>
    /\ HomeUnchanged

\* handleDeleteConfirm: del.mutate(), whose mutationFn is deleteJob(id).
handleDeleteConfirm ==
    /\ deleteConfirm
    /\ "delete" \notin jobPending
    /\ SendJobRequest("delete")
    /\ UNCHANGED <<queryData, deleteConfirm>>
    /\ HomeUnchanged

\* A job request comes back: onSuccess or onError.
JobSettled(action, ok) ==
    /\ action \in jobPending
    /\ jobPending' = jobPending \ {action}
    /\ lastToast' = [type |-> IF ok THEN "success" ELSE "error",
                     context |-> action,
                     message |-> IF ok THEN "ok" ELSE "AxiosError"]
    /\ deleteConfirm' = IF action = "delete" /\ ok THEN FALSE ELSE deleteConfirm
    /\ lastEvent' = Event(IF ok THEN "succeeded" ELSE "failed", action, FALSE)
    /\ UNCHANGED <<queryData, jobCalls>>
    /\ HomeUnchanged

\* refetchInterval: 30000 falls due for the scheduler status.
StatusTick ==
    /\ "scheduler-status" \notin fetching
    /\ fetching' = fetching \cup {"scheduler-status"}
    /\ lastEvent' = Event("tick", "scheduler-status", FALSE)
    /\ UNCHANGED <<isClient, optimisticSchedulerState, operationInProgress, queryData,
                   fresh, mutationStatus, timers, lifecycleCalls, lastToast>>

JobsInit ==
    /\ JobsAtRest
    /\ LoginAtRest
    /\ PollAtRest
    /\ ControlAtRest
    /\ GatewayAtRest
    /\ NormAtRest

JobsFrame == UNCHANGED <<gatewayVars, normVars, loginVars, pollVars>>

JobsNext ==
    \/ \E action \in {"execute", "pause", "resume"} : exec(action) /\ JobsFrame
    \/ \E action \in {"create", "update"} : \E repeated \in BOOLEAN :
            onSubmit(action, repeated) /\ JobsFrame
    \/ handleDeleteClick /\ JobsFrame
    \/ handleDeleteCancel /\ JobsFrame
    \/ handleDeleteConfirm /\ JobsFrame
    \/ \E action \in JobActions : \E ok \in BOOLEAN : JobSettled(action, ok) /\ JobsFrame
    \/ StatusTick /\ UNCHANGED jobVars /\ JobsFrame
    \/ \E body \in QueryBodies("scheduler-status") :
            QueryFulfilled("scheduler-status", body) /\ UNCHANGED jobVars /\ JobsFrame
    \/ QueryRejected("scheduler-status") /\ UNCHANGED jobVars /\ JobsFrame

JobsSpec == JobsInit /\ [][JobsNext]_vars

(* C16, as claimed: while the scheduler is not known to be running, none of *)
(* create, update, execute, pause, resume and delete sends a request.       *)
C16_NoJobRequestUnlessRunning ==
    [][jobCalls' # jobCalls => JsTruthy(isRunning)]_vars

-----------------------------------------------------------------------------
(* The login page (src/app/login/page.tsx): remember me.                    *)

\* Usernames that pass loginSchema (an e-mail address or a phone number);
\* handleSubmit calls onSubmit with valid data only.
Usernames == {"test@example.com", "13812345678"}
ValidPassword == "Test123"

\* What login() resolves to.
LoginResponses ==
    { [success |-> TRUE, data |-> [token |-> JsonString("test-token")]],
      [success |-> TRUE, data |-> JsUndefined],
      [success |-> FALSE, data |-> JsUndefined] }

\* The number of remember-me changes and finished logins followed.
MaxLoginEvents == 3

ToggleEvent(checked) ==
    [kind |-> "toggle", rememberMe |-> checked, username |-> "", success |-> FALSE]
LoginEvent(data, success) ==
    [kind |-> "login", rememberMe |-> data.rememberMe, username |-> data.username,
     success |-> success]

\* The page comes on screen: the form starts empty, and the effect restores
\* a remembered username and ticks the box.
LoginMount ==
    /\ ~loginMounted
    /\ loginMounted' = TRUE
    /\ loginForm' = IF Truthy(rememberedUsername)
                    THEN [username |-> rememberedUsername, rememberMe |-> TRUE]
                    ELSE EmptyForm
    /\ isLoading' = FALSE
    /\ loginOutcome' = "none"
    /\ UNCHANGED <<rememberedUsername, loginData, loginHistory>>

\* router.push('/') after a login, or any navigation away.
LoginUnmount ==
    /\ loginMounted
    /\ ~isLoading
    /\ loginMounted' = FALSE
    /\ UNCHANGED <<rememberedUsername, loginForm, isLoading, loginData, loginOutcome,
                   loginHistory>>

\* The operator types a username (the input is disabled while loading).
TypeUsername(username) ==
    /\ loginMounted
    /\ ~isLoading
    /\ loginForm.username # username
    /\ loginForm' = [loginForm EXCEPT !.username = username]
    /\ UNCHANGED <<rememberedUsername, loginMounted, isLoading, loginData, loginOutcome,
                   loginHistory>>

\* handleRememberMeChange without the removal.
handleRememberMeChange_KeepsItem(checked) ==
    /\ loginForm' = [loginForm EXCEPT !.rememberMe = checked]
    /\ UNCHANGED rememberedUsername

handleRememberMeChange(checked) ==
    /\ loginForm' = [loginForm EXCEPT !.rememberMe = checked]
    /\ rememberedUsername' = IF ~checked THEN Null ELSE rememberedUsername

\* A click on the remember-me box (disabled while loading).
RememberMeClicked ==
    /\ loginMounted
    /\ ~isLoading
    /\ Len(loginHistory) < MaxLoginEvents
    /\ handleRememberMeChange(~loginForm.rememberMe)
    /\ loginHistory' = Append(loginHistory, ToggleEvent(~loginForm.rememberMe))
    /\ UNCHANGED <<loginMounted, isLoading, loginData, loginOutcome>>

\* onSubmit up to await login(data).
onSubmit_Begin ==
    /\ loginMounted
    /\ ~isLoading
    /\ loginForm.username \in Usernames
    /\ Len(loginHistory) < MaxLoginEvents
    /\ isLoading' = TRUE
    /\ loginOutcome' = "none"
    /\ loginData' = [username |-> loginForm.username, password |-> ValidPassword,
                     rememberMe |-> loginForm.rememberMe]
    /\ UNCHANGED <<rememberedUsername, loginMounted, loginForm, loginHistory>>

\* onSubmit after login(data) has resolved.
onSubmit_Resolved(resp) ==
    /\ isLoading
    /\ IF resp.success /\ JsTruthy(resp.data)
       THEN /\ rememberedUsername' =
                  IF loginData.rememberMe THEN loginData.username ELSE Null
            /\ loginOutcome' = "success"
       ELSE /\ loginOutcome' = "error"
            /\ UNCHANGED rememberedUsername
    /\ loginHistory' = Append(loginHistory,
                              LoginEvent(loginData, resp.success /\ JsTruthy(resp.data)))
    /\ isLoading' = FALSE
    /\ loginData' = NoLoginData
    /\ UNCHANGED <<loginMounted, loginForm>>

\* onSubmit when login(data) throws: the catch branch.
onSubmit_Threw ==
    /\ isLoading
    /\ loginOutcome' = "network error"
    /\ loginHistory' = Append(loginHistory, LoginEvent(loginData, FALSE))
    /\ isLoading' = FALSE
    /\ loginData' = NoLoginData
    /\ UNCHANGED <<rememberedUsername, loginMounted, loginForm>>

LoginInit ==
    /\ LoginAtRest
    /\ PollAtRest
    /\ JobsAtRest
    /\ ControlAtRest
    /\ GatewayAtRest
    /\ NormAtRest

LoginFrame == UNCHANGED <<gatewayVars, normVars, controlVars, jobVars, pollVars>>

LoginNext ==
    \/ LoginMount /\ LoginFrame
    \/ LoginUnmount /\ LoginFrame
    \/ \E username \in Usernames : TypeUsername(username) /\ LoginFrame
    \/ RememberMeClicked /\ LoginFrame
    \/ onSubmit_Begin /\ LoginFrame
    \/ \E resp \in LoginResponses : onSubmit_Resolved(resp) /\ LoginFrame
    \/ onSubmit_Threw /\ LoginFrame

LoginSpec == LoginInit /\ [][LoginNext]_vars

\* What the remembered username should be after a history of remember-me
\* changes and finished logins.
RECURSIVE RememberedAfter(_)
RememberedAfter(history) ==
    IF history = <<>> THEN Null
    ELSE LET ev == history[Len(history)]
             before == SubSeq(history, 1, Len(history) - 1)
         IN IF ev.kind = "toggle"
            THEN IF ev.rememberMe THEN RememberedAfter(before) ELSE Null
            ELSE IF ~ev.success THEN RememberedAfter(before)
            ELSE IF ev.rememberMe THEN ev.username
            ELSE Null

(* C20: localStorage 'remembered_username' is the username of the latest    *)
(* successful login submitted with remember me ticked, unless remember me   *)
(* has been unticked, or a login with it unticked has succeeded, since:     *)
(* then it is absent.  A failed login and ticking the box change nothing.   *)
C20_RememberedUsername == rememberedUsername = RememberedAfter(loginHistory)

\* A username is remembered, and the last thing that happened is a failed
\* login under another username.
C20_Witness ==
    /\ Len(loginHistory) = MaxLoginEvents
    /\ loginHistory[Len(loginHistory)].kind = "login"
    /\ ~loginHistory[Len(loginHistory)].success
    /\ rememberedUsername \in Usernames
    /\ loginHistory[Len(loginHistory)].username # rememberedUsername

-----------------------------------------------------------------------------
(* Claims about the Home page: who clears the optimistic state, and when    *)

\* The step takes the optimistic state from set to absent.
OptimisticCleared == optimisticSchedulerState # JsNull /\ optimisticSchedulerState' = JsNull

\* The step is the failure callback of <op>.
FailedStep(op) == lastEvent' = Event("failed", op, FALSE) /\ IsPending(op)

ControlFairness ==
    /\ WF_vars(TimerFired /\ ControlFrame)
    /\ WF_vars(Refetch("scheduler-status") /\ ControlFrame)
    /\ SF_vars((\E body \in {StatusRunningBody, StatusStoppedBody} :
                  QueryFulfilled("scheduler-status", body)) /\ ControlFrame)
    /\ \A key \in QueryKeys :
          WF_vars((\/ \E body \in QueryBodies(key) : QueryFulfilled(key, body)
                   \/ QueryRejected(key)) /\ ControlFrame)
    /\ \A op \in LifecycleOps :
          WF_vars((\/ \E body \in MutationBodies : MutationFulfilled(op, body)
                   \/ MutationRejected(op)) /\ ControlFrame)

ControlFairSpec == ControlSpec /\ ControlFairness

(* C22, as claimed: under fair scheduling every optimistic state that is    *)
(* set is eventually cleared, also when the call succeeds and the upstream  *)
(* keeps reporting another state.                                           *)
C22_OptimisticEventuallyCleared ==
    (optimisticSchedulerState # JsNull) ~> (optimisticSchedulerState = JsNull)

(* C23, as claimed: a click on restart is never refused, whatever the       *)
(* effective state and whatever is pending: it sets the optimistic state to *)
(* the target of start and sends the restart request.                       *)
C23_RestartNeverRefused ==
    [][ClickedOn("restart") =>
          /\ lastEvent'.kind = "issued"
          /\ optimisticSchedulerState' = OptimisticTarget("start")
          /\ lifecycleCalls' = Append(lifecycleCalls, "restart")]_vars

(* C23, amended: restart has no refusal condition on the effective state.   *)
(* It is refused, with no request and no change, exactly while an operation *)
(* is in progress (a pending start, stop or restart, or the marker set).    *)
(* Otherwise, whatever the effective state, it sends the restart request    *)
(* after onMutate has set the optimistic state to the target of start,      *)
(* which stays set unless the last polled value is already Running: then    *)
(* the effect clears it, and the marker, at once.                           *)
C23_RestartRefusedOnlyWhileBusy ==
    [][ClickedOn("restart") =>
          IF isAnyOperationInProgress
          THEN /\ lastEvent'.kind = "refused"
               /\ lifecycleCalls' = lifecycleCalls
               /\ UNCHANGED <<optimisticSchedulerState, operationInProgress,
                              mutationStatus>>
          ELSE /\ lastEvent'.kind = "issued"
               /\ lifecycleCalls' = Append(lifecycleCalls, "restart")
               /\ mutationStatus'["restart"] = "pending"
               /\ OptimisticTarget("restart") = OptimisticTarget("start")
               /\ currentSchedulerState' = OptimisticTarget("start")
               /\ optimisticSchedulerState' =
                     (IF isRunning = OptimisticTarget("start") THEN JsNull
                      ELSE OptimisticTarget("start"))]_vars

\* Restart is accepted while the page shows Running.
C23_Witness ==
    /\ lastEvent = Event("issued", "restart", TRUE)
    /\ IsPending("restart")
    /\ isRunning = JsBoolean(TRUE)
    /\ LastIssued = "restart"


\* A start, stop or restart call that was pending has succeeded in this step.
SucceededStep(op) == lastEvent' = Event("succeeded", op, FALSE) /\ IsPending(op)

ControlCompletionFairness ==
    /\ WF_vars(TimerFired /\ ControlFrame)
    /\ \A key \in QueryKeys :
          WF_vars((\/ \E body \in QueryBodies(key) : QueryFulfilled(key, body)
                   \/ QueryRejected(key)) /\ ControlFrame)
    /\ \A op \in LifecycleOps :
          WF_vars((\/ \E body \in MutationBodies : MutationFulfilled(op, body)
                   \/ MutationRejected(op)) /\ ControlFrame)

ControlPollSpec == ControlSpec /\ ControlCompletionFairness

\* A fetch of the query has been answered with a value in this step.
PolledStep(key) == lastEvent'.kind = "polled" /\ lastEvent'.what = key

\* A fetch of the query has failed in this step.
PollFailedStep(key) ==
    lastEvent'.kind \in {"queryError", "queryThrew"} /\ lastEvent'.what = key

\* C25: a poll that succeeds replaces the cached value of its resource; a poll
\* that fails leaves the whole cache and the timers as they were and ends no
\* other resource's fetch; and after a failed poll the resource is fetched
\* again.
C25_FailedPollKeepsCacheAndPollsAgain ==
    /\ [][\A key \in QueryKeys :
            /\ PolledStep(key) =>
                  /\ \E body \in QueryBodies(key) :
                        queryData'[key] = queryFn(key, body).value
                  /\ \A other \in QueryKeys \ {key} : queryData'[other] = queryData[other]
            /\ PollFailedStep(key) =>
                  /\ queryData' = queryData
                  /\ timers' = timers
                  /\ fetching' = fetching \ {key}]_vars
    /\ \A key \in QueryKeys :
          (lastEvent.kind = "queryError" /\ lastEvent.what = key) ~> (key \in fetching)


\* The most fetches of one query followed at a time.
MaxPollCalls == 2

\* The queries a job page keeps polling: JobsPage polls the scheduler status
\* and the job list, JobDetailPage the scheduler status, the job, its
\* executions and its next execution.
PagePolls(page) ==
    CASE page = "jobs" -> {"scheduler-status", "jobs"}
      [] page = "detail" -> {"scheduler-status", "job", "executions", "next-exec"}
      [] OTHER -> {}

\* The query a page invalidates when a pause, resume or delete succeeds.
PageInvalidates(page) == IF page = "jobs" THEN "jobs" ELSE "job"

\* A job page is mounted: each of its queries is fetched, unless a fetch of
\* it is still under way.
PollMount(page) ==
    /\ pollPage = "none"
    /\ pollPage' = page
    /\ pollCalls' = [key \in PolledKeys |->
                        IF key \in PagePolls(page) /\ pollCalls[key] = 0
                        THEN 1 ELSE pollCalls[key]]
    /\ pollEvent' = Event("mounted", page, FALSE)

\* The page is left: its intervals stop, its fetches are not aborted.
PollUnmount ==
    /\ pollPage # "none"
    /\ pollPage' = "none"
    /\ pollEvent' = Event("unmounted", pollPage, FALSE)
    /\ UNCHANGED pollCalls

\* An interval that starts a fetch whether or not one is under way.
Tick_NoSkip(key) ==
    /\ key \in PagePolls(pollPage)
    /\ pollCalls[key] < MaxPollCalls
    /\ pollCalls' = [pollCalls EXCEPT ![key] = @ + 1]
    /\ pollEvent' = Event("tick", key, FALSE)
    /\ UNCHANGED pollPage

\* refetchInterval falls due for a query of the page on screen: react-query
\* starts a fetch when the query is idle, and joins the fetch under way
\* otherwise.
Tick(key) ==
    /\ key \in PagePolls(pollPage)
    /\ IF pollCalls[key] > 0
       THEN /\ pollEvent' = Event("skipped", key, FALSE)
            /\ UNCHANGED pollCalls
       ELSE /\ pollCalls[key] < MaxPollCalls
            /\ pollCalls' = [pollCalls EXCEPT ![key] = @ + 1]
            /\ pollEvent' = Event("tick", key, FALSE)
    /\ UNCHANGED pollPage

\* A fetch is answered, or fails after its retries.
PollResolved(key, ok) ==
    /\ pollCalls[key] > 0
    /\ pollCalls' = [pollCalls EXCEPT ![key] = @ - 1]
    /\ pollEvent' = Event(IF ok THEN "polled" ELSE "queryError", key, FALSE)
    /\ UNCHANGED pollPage

\* qc.invalidateQueries in onSuccess of pause, resume and del: the query is
\* fetched again; a fetch of it under way is cancelled (its answer will be
\* dropped) and replaced by the new one.
PollInvalidate ==
    /\ pollPage # "none"
    /\ pollCalls' = [pollCalls EXCEPT ![PageInvalidates(pollPage)] = 1]
    /\ pollEvent' = Event("invalidated", PageInvalidates(pollPage), FALSE)
    /\ UNCHANGED pollPage

PollInit ==
    /\ PollAtRest
    /\ LoginAtRest
    /\ JobsAtRest
    /\ ControlAtRest
    /\ GatewayAtRest
    /\ NormAtRest

PollFrame == UNCHANGED <<gatewayVars, normVars, controlVars, jobVars, loginVars>>

PollNext ==
    \/ \E page \in {"jobs", "detail"} : PollMount(page) /\ PollFrame
    \/ PollUnmount /\ PollFrame
    \/ \E key \in PolledKeys : Tick(key) /\ PollFrame
    \/ \E key \in PolledKeys : \E ok \in BOOLEAN : PollResolved(key, ok) /\ PollFrame
    \/ PollInvalidate /\ PollFrame

PollSpec == PollInit /\ [][PollNext]_vars

C27_OptimisticWriters ==
    [][optimisticSchedulerState' # optimisticSchedulerState =>
          \/ \E op \in LifecycleOps : \E reconciled \in BOOLEAN :
                /\ lastEvent' = Event("issued", op, reconciled)
                /\ optimisticSchedulerState' =
                      IF reconciled THEN JsNull ELSE OptimisticTarget(op)
          \/ /\ FailedStep(LastIssued)
             /\ optimisticSchedulerState' = JsNull
          \/ /\ lastEvent' = Event("polled", "scheduler-status", TRUE)
             /\ optimisticSchedulerState' = JsNull]_vars

\* The health query has failed after a start succeeded and its timer ran,
\* and the optimistic state is still set.
C27_Witness ==
    /\ lastEvent = Event("queryError", "health", FALSE)
    /\ mutationStatus["start"] = "success"
    /\ timers = 0
    /\ optimisticSchedulerState = JsBoolean(TRUE)


\* C28, as claimed: while a start, stop or restart call is outstanding, the
\* optimistic state that operation set is still set.
C28_OptimisticSetWhileCallOutstanding ==
    \A op \in LifecycleOps :
        IsPending(op) => optimisticSchedulerState = OptimisticTarget(op)


\* C29: at most one start, stop or restart call is pending at any time; while
\* one is pending, or the marker is set, all three buttons are disabled, and
\* a call is sent only in a step that began with none pending and no marker.
C29_OneLifecycleCallInFlight ==
    [][/\ Cardinality({op \in LifecycleOps : mutationStatus'[op] = "pending"}) <= 1
       /\ isAnyOperationInProgress => \A op \in LifecycleOps : Disabled(op)
       /\ lifecycleCalls' # lifecycleCalls => ~isAnyOperationInProgress]_vars

\* Stop has been clicked while the start call is pending and the page shows
\* the scheduler as running: the click was refused and one call is out.
C29_Witness ==
    /\ lastEvent = Event("refused", "stop", FALSE)
    /\ IsPending("start")
    /\ currentSchedulerState = JsBoolean(TRUE)
    /\ lifecycleCalls = <<"start">>


\* C30, as claimed: whenever a start, stop or restart call is in flight the
\* marker is that operation's ('starting', 'stopping' or 'restarting').
C30_MarkerSetWhileCallInFlight ==
    \A op \in LifecycleOps :
        IsPending(op) => operationInProgress = OperationMarker(op)

=========================================================================
